---- MODULE Spec2Model ----
(***************************************************************************)
(* Model of dev/samples/pre_post_processing/python/adk/agent.py:           *)
(* the pre-tool callback enfore_business_rules, the post-tool callback     *)
(* enrich_response, the turn driver run_chat_turn and main.                *)
(*                                                                         *)
(* Text is a TLA+ string, read character by character with SubSeq.         *)
(* Python values are tagged records; dicts live in a heap (a sequence of   *)
(* objects, a reference is an index) so that aliasing is observable.       *)
(***************************************************************************)
EXTENDS Integers, Sequences, FiniteSets, TLC

VARIABLES
    pc,             \* position of main
    turn,           \* number of the chat turn main is in (0 before the first)
    tpc,            \* position of run_chat_turn
    acquired,       \* number of ToolboxToolset connections constructed
    closed,         \* number of toolset.close() calls completed
    response_text,  \* run_chat_turn's accumulator
    stdout,         \* everything printed, one entry per print call
    events,         \* the events the runner has yielded in this turn
    yielded,        \* number of events the runner has yielded in this run
    calls,          \* number of tool calls the runtime has started
    call,           \* the tool call the runtime is dispatching
    heap            \* the dict objects alive during that tool call

vars == <<pc, turn, tpc, acquired, closed, response_text, stdout, events,
          yielded, calls, call, heap>>

(***************************************************************************)
(* Bounds of the model.                                                    *)
(***************************************************************************)
MaxEvents == 2
MaxToolCalls == 1

(***************************************************************************)
(* Text helpers.                                                           *)
(***************************************************************************)
CharAt(s, i) == SubSeq(s, i, i)

\* Python's `sub in s` for strings.
Contains(s, sub) ==
    \E i \in 1..(Len(s) - Len(sub) + 1) : SubSeq(s, i, i + Len(sub) - 1) = sub

Digits == {"0", "1", "2", "3", "4", "5", "6", "7", "8", "9"}

DigitVal(c) ==
    CASE c = "0" -> 0 [] c = "1" -> 1 [] c = "2" -> 2 [] c = "3" -> 3
      [] c = "4" -> 4 [] c = "5" -> 5 [] c = "6" -> 6 [] c = "7" -> 7
      [] c = "8" -> 8 [] c = "9" -> 9

DigitChar(d) ==
    CASE d = 0 -> "0" [] d = 1 -> "1" [] d = 2 -> "2" [] d = 3 -> "3"
      [] d = 4 -> "4" [] d = 5 -> "5" [] d = 6 -> "6" [] d = 7 -> "7"
      [] d = 8 -> "8" [] d = 9 -> "9"

AllDigits(s) == \A i \in 1..Len(s) : CharAt(s, i) \in Digits

RECURSIVE ParseNat(_)
ParseNat(s) ==
    IF Len(s) = 0 THEN 0
    ELSE 10 * ParseNat(SubSeq(s, 1, Len(s) - 1)) + DigitVal(CharAt(s, Len(s)))

\* str(n) for n >= 0, as the f-string formats loyalty_bonus.
RECURSIVE IntToText(_)
IntToText(n) ==
    IF n < 10 THEN DigitChar(n)
    ELSE IntToText(n \div 10) \o DigitChar(n % 10)

(***************************************************************************)
(* datetime.fromisoformat and timedelta.days.                              *)
(* Accepted here: YYYY-MM-DD, optionally followed by one separator         *)
(* character and HH or HH:MM.  Everything else is a ValueError.            *)
(***************************************************************************)
IsLeap(y) == (y % 4 = 0) /\ ((y % 100 # 0) \/ (y % 400 = 0))

DaysInMonth(y, m) ==
    CASE m \in {1, 3, 5, 7, 8, 10, 12} -> 31
      [] m \in {4, 6, 9, 11} -> 30
      [] m = 2 -> IF IsLeap(y) THEN 29 ELSE 28

RECURSIVE DaysBeforeMonth(_, _)
DaysBeforeMonth(y, m) ==
    IF m = 1 THEN 0 ELSE DaysBeforeMonth(y, m - 1) + DaysInMonth(y, m - 1)

DaysBeforeYear(y) ==
    (y - 1) * 365 + ((y - 1) \div 4) - ((y - 1) \div 100) + ((y - 1) \div 400)

\* date.toordinal()
Ymd2Ord(y, m, d) == DaysBeforeYear(y) + DaysBeforeMonth(y, m) + d

ParseError == [ok |-> FALSE, ord |-> 0, mins |-> 0]

DateShapeOk(s) ==
    /\ Len(s) >= 10
    /\ AllDigits(SubSeq(s, 1, 4))
    /\ CharAt(s, 5) = "-"
    /\ AllDigits(SubSeq(s, 6, 7))
    /\ CharAt(s, 8) = "-"
    /\ AllDigits(SubSeq(s, 9, 10))

TimeShapeOk(s) ==
    \/ Len(s) = 10
    \/ Len(s) = 13 /\ AllDigits(SubSeq(s, 12, 13))
    \/ /\ Len(s) = 16
       /\ AllDigits(SubSeq(s, 12, 13))
       /\ CharAt(s, 14) = ":"
       /\ AllDigits(SubSeq(s, 15, 16))

fromisoformat(s) ==
    IF ~(DateShapeOk(s) /\ TimeShapeOk(s)) THEN ParseError
    ELSE LET y  == ParseNat(SubSeq(s, 1, 4))
             m  == ParseNat(SubSeq(s, 6, 7))
             d  == ParseNat(SubSeq(s, 9, 10))
             hh == IF Len(s) >= 13 THEN ParseNat(SubSeq(s, 12, 13)) ELSE 0
             mm == IF Len(s) = 16 THEN ParseNat(SubSeq(s, 15, 16)) ELSE 0
         IN  IF /\ y >= 1
                /\ m \in 1..12
                /\ d >= 1
                /\ d <= DaysInMonth(y, m)
                /\ hh \in 0..23
                /\ mm \in 0..59
             THEN [ok |-> TRUE, ord |-> Ymd2Ord(y, m, d), mins |-> hh * 60 + mm]
             ELSE ParseError

\* (end - start).days: the floor of the difference in whole days.
TimedeltaDays(end, start) ==
    ((end.ord - start.ord) * 1440 + (end.mins - start.mins)) \div 1440

(***************************************************************************)
(* Python values and the heap of dict objects.                             *)
(***************************************************************************)
NoneV == [t |-> "none", s |-> "", n |-> 0]
Str(x) == [t |-> "str", s |-> x, n |-> 0]
IntV(k) == [t |-> "int", s |-> "", n |-> k]
Dict(a) == [t |-> "dict", s |-> "", n |-> a]

EmptyDict == [k \in {} |-> NoneV]

\* d[k] = v
DictSet(d, k, v) == [x \in (DOMAIN d) \cup {k} |-> IF x = k THEN v ELSE d[x]]

\* d.get(k, default)
DictGet(d, k, default) == IF k \in DOMAIN d THEN d[k] ELSE default

\* copy.deepcopy: a dict is copied into a fresh object, then each of its
\* values is deep-copied into it; immutable values are returned as they are.
RECURSIVE deepcopy(_, _)
RECURSIVE CopyItems(_, _, _, _)
CopyItems(h, src, dst, keys) ==
    IF keys = {} THEN h
    ELSE LET k == CHOOSE x \in keys : TRUE
             r == deepcopy(h, h[src][k])
         IN  CopyItems([r.heap EXCEPT ![dst] = DictSet(@, k, r.v)],
                       src, dst, keys \ {k})

deepcopy(h, v) ==
    IF v.t = "dict"
    THEN LET h1 == Append(h, EmptyDict)
             dst == Len(h1)
         IN  [heap |-> CopyItems(h1, v.n, dst, DOMAIN h[v.n]), v |-> Dict(dst)]
    ELSE [heap |-> h, v |-> v]

(***************************************************************************)
(* Pre processing: enfore_business_rules.                                  *)
(* The outcome is the heap, the argument mapping after the call, the       *)
(* returned value, the exception raised ("" for none) and the lines        *)
(* printed.                                                                *)
(***************************************************************************)
MaxStay == 14

PolicyMessage == "Error: Maximum stay duration is 14 days."

PolicyCheckLine(tool_name) == "POLICY CHECK: Intercepting '" \o tool_name \o "'"

\* Variant: the stay is counted inclusively (duration + 1).
enfore_business_rules_inclusive(h, tool_name, args) ==
    LET out == <<PolicyCheckLine(tool_name)>>
        pass == [heap |-> h, args |-> args, ret |-> NoneV, exc |-> "",
                 out |-> out]
        fail == [heap |-> h, args |-> args, ret |-> NoneV,
                 exc |-> "ValueError", out |-> out]
    IN  IF /\ tool_name = "update-hotel"
           /\ "checkin_date" \in DOMAIN args
           /\ "checkout_date" \in DOMAIN args
        THEN LET start == fromisoformat(args["checkin_date"])
                 end == fromisoformat(args["checkout_date"])
             IN  IF ~start.ok THEN fail
                 ELSE IF ~end.ok THEN fail
                 ELSE IF TimedeltaDays(end, start) + 1 > MaxStay
                      THEN [heap |-> Append(h, [result |-> Str(PolicyMessage)]),
                            args |-> args,
                            ret |-> Dict(Len(h) + 1),
                            exc |-> "",
                            out |-> out \o <<"BLOCKED: Stay too long">>]
                      ELSE pass
        ELSE pass

\* Variant: the tool name is not tested.
enfore_business_rules_any_tool(h, tool_name, args) ==
    LET out == <<PolicyCheckLine(tool_name)>>
        pass == [heap |-> h, args |-> args, ret |-> NoneV, exc |-> "",
                 out |-> out]
        fail == [heap |-> h, args |-> args, ret |-> NoneV,
                 exc |-> "ValueError", out |-> out]
    IN  IF /\ "checkin_date" \in DOMAIN args
           /\ "checkout_date" \in DOMAIN args
        THEN LET start == fromisoformat(args["checkin_date"])
                 end == fromisoformat(args["checkout_date"])
             IN  IF ~start.ok THEN fail
                 ELSE IF ~end.ok THEN fail
                 ELSE IF TimedeltaDays(end, start) > MaxStay
                      THEN [heap |-> Append(h, [result |-> Str(PolicyMessage)]),
                            args |-> args,
                            ret |-> Dict(Len(h) + 1),
                            exc |-> "",
                            out |-> out \o <<"BLOCKED: Stay too long">>]
                      ELSE pass
        ELSE pass

\* Variant: a date-parse error is caught and the call is let through.
enfore_business_rules_swallow(h, tool_name, args) ==
    LET out == <<PolicyCheckLine(tool_name)>>
        pass == [heap |-> h, args |-> args, ret |-> NoneV, exc |-> "",
                 out |-> out]
        fail == pass
    IN  IF /\ tool_name = "update-hotel"
           /\ "checkin_date" \in DOMAIN args
           /\ "checkout_date" \in DOMAIN args
        THEN LET start == fromisoformat(args["checkin_date"])
                 end == fromisoformat(args["checkout_date"])
             IN  IF ~start.ok THEN fail
                 ELSE IF ~end.ok THEN fail
                 ELSE IF TimedeltaDays(end, start) > MaxStay
                      THEN [heap |-> Append(h, [result |-> Str(PolicyMessage)]),
                            args |-> args,
                            ret |-> Dict(Len(h) + 1),
                            exc |-> "",
                            out |-> out \o <<"BLOCKED: Stay too long">>]
                      ELSE pass
        ELSE pass

enfore_business_rules(h, tool_name, args) ==
    LET out == <<PolicyCheckLine(tool_name)>>
        pass == [heap |-> h, args |-> args, ret |-> NoneV, exc |-> "",
                 out |-> out]
        fail == [heap |-> h, args |-> args, ret |-> NoneV,
                 exc |-> "ValueError", out |-> out]
    IN  IF /\ tool_name = "update-hotel"
           /\ "checkin_date" \in DOMAIN args
           /\ "checkout_date" \in DOMAIN args
        THEN LET start == fromisoformat(args["checkin_date"])
                 end == fromisoformat(args["checkout_date"])
             IN  IF ~start.ok THEN fail
                 ELSE IF ~end.ok THEN fail
                 ELSE IF TimedeltaDays(end, start) > MaxStay
                      THEN [heap |-> Append(h, [result |-> Str(PolicyMessage)]),
                            args |-> args,
                            ret |-> Dict(Len(h) + 1),
                            exc |-> "",
                            out |-> out \o <<"BLOCKED: Stay too long">>]
                      ELSE pass
        ELSE pass

(***************************************************************************)
(* Post processing: enrich_response.                                       *)
(***************************************************************************)
loyalty_bonus == 500

\* Variant: the original result text is left out.
EnrichedText_no_detail(result) ==
    "Booking Confirmed!\n You earned " \o IntToText(loyalty_bonus)
        \o " Loyalty Points with this stay.\n\nSystem Details: "

EnrichedText(result) ==
    "Booking Confirmed!\n You earned " \o IntToText(loyalty_bonus)
        \o " Loyalty Points with this stay.\n\nSystem Details: " \o result

\* Variant: the error marker is not looked for.
enrich_response_no_error_check(h, tool_name, tool_response) ==
    IF tool_response.t \notin {"dict", "str"}
    THEN [heap |-> h, ret |-> NoneV]
    ELSE LET result == IF tool_response.t = "dict"
                       THEN DictGet(h[tool_response.n], "result", Str(""))
                       ELSE tool_response
         IN  IF /\ result.t = "str"
                /\ tool_name = "book-hotel"
             THEN LET enriched_result == EnrichedText(result.s)
                  IN  IF tool_response.t = "dict"
                      THEN LET c == deepcopy(h, tool_response)
                           IN  [heap |-> [c.heap EXCEPT ![c.v.n] =
                                    DictSet(@, "result", Str(enriched_result))],
                                ret |-> c.v]
                      ELSE [heap |-> h, ret |-> Str(enriched_result)]
             ELSE [heap |-> h, ret |-> NoneV]

\* Variant: every tool's result is enriched.
enrich_response_any_tool(h, tool_name, tool_response) ==
    IF tool_response.t \notin {"dict", "str"}
    THEN [heap |-> h, ret |-> NoneV]
    ELSE LET result == IF tool_response.t = "dict"
                       THEN DictGet(h[tool_response.n], "result", Str(""))
                       ELSE tool_response
         IN  IF /\ result.t = "str"
                /\ ~Contains(result.s, "Error")
             THEN LET enriched_result == EnrichedText(result.s)
                  IN  IF tool_response.t = "dict"
                      THEN LET c == deepcopy(h, tool_response)
                           IN  [heap |-> [c.heap EXCEPT ![c.v.n] =
                                    DictSet(@, "result", Str(enriched_result))],
                                ret |-> c.v]
                      ELSE [heap |-> h, ret |-> Str(enriched_result)]
             ELSE [heap |-> h, ret |-> NoneV]

\* Variant: the mapping is copied one level deep only.
enrich_response_shallow(h, tool_name, tool_response) ==
    IF tool_response.t \notin {"dict", "str"}
    THEN [heap |-> h, ret |-> NoneV]
    ELSE LET result == IF tool_response.t = "dict"
                       THEN DictGet(h[tool_response.n], "result", Str(""))
                       ELSE tool_response
         IN  IF /\ result.t = "str"
                /\ ~Contains(result.s, "Error")
                /\ tool_name = "book-hotel"
             THEN LET enriched_result == EnrichedText(result.s)
                  IN  IF tool_response.t = "dict"
                      THEN LET c == [heap |-> Append(h, h[tool_response.n]),
                                     v |-> Dict(Len(h) + 1)]
                           IN  [heap |-> [c.heap EXCEPT ![c.v.n] =
                                    DictSet(@, "result", Str(enriched_result))],
                                ret |-> c.v]
                      ELSE [heap |-> h, ret |-> Str(enriched_result)]
             ELSE [heap |-> h, ret |-> NoneV]

\* Variant: a missing result field reads as None.
enrich_response_no_default(h, tool_name, tool_response) ==
    IF tool_response.t \notin {"dict", "str"}
    THEN [heap |-> h, ret |-> NoneV]
    ELSE LET result == IF tool_response.t = "dict"
                       THEN DictGet(h[tool_response.n], "result", NoneV)
                       ELSE tool_response
         IN  IF /\ result.t = "str"
                /\ ~Contains(result.s, "Error")
                /\ tool_name = "book-hotel"
             THEN LET enriched_result == EnrichedText(result.s)
                  IN  IF tool_response.t = "dict"
                      THEN LET c == deepcopy(h, tool_response)
                           IN  [heap |-> [c.heap EXCEPT ![c.v.n] =
                                    DictSet(@, "result", Str(enriched_result))],
                                ret |-> c.v]
                      ELSE [heap |-> h, ret |-> Str(enriched_result)]
             ELSE [heap |-> h, ret |-> NoneV]

enrich_response(h, tool_name, tool_response) ==
    IF tool_response.t \notin {"dict", "str"}
    THEN [heap |-> h, ret |-> NoneV]
    ELSE LET result == IF tool_response.t = "dict"
                       THEN DictGet(h[tool_response.n], "result", Str(""))
                       ELSE tool_response
         IN  IF /\ result.t = "str"
                /\ ~Contains(result.s, "Error")
                /\ tool_name = "book-hotel"
             THEN LET enriched_result == EnrichedText(result.s)
                  IN  IF tool_response.t = "dict"
                      THEN LET c == deepcopy(h, tool_response)
                           IN  [heap |-> [c.heap EXCEPT ![c.v.n] =
                                    DictSet(@, "result", Str(enriched_result))],
                                ret |-> c.v]
                      ELSE [heap |-> h, ret |-> Str(enriched_result)]
             ELSE [heap |-> h, ret |-> NoneV]

(***************************************************************************)
(* run_chat_turn: the body of the loop over the event stream.              *)
(* An event has a content or none; a content has a list of parts; the      *)
(* text of a part is a string or None.                                     *)
(***************************************************************************)
RECURSIVE AddParts(_, _)
AddParts(text, parts) ==
    IF parts = <<>> THEN text
    ELSE AddParts(IF Head(parts).t = "str" /\ Head(parts).s # ""
                  THEN text \o Head(parts).s
                  ELSE text,
                  Tail(parts))

\* Variant: a fragment replaces the text instead of being appended.
RECURSIVE AddParts_overwrite(_, _)
AddParts_overwrite(text, parts) ==
    IF parts = <<>> THEN text
    ELSE AddParts_overwrite(IF Head(parts).t = "str" /\ Head(parts).s # ""
                  THEN Head(parts).s
                  ELSE text,
                  Tail(parts))

accumulate_overwrite(text, event) ==
    IF event.content /\ event.parts # <<>>
    THEN AddParts_overwrite(text, event.parts)
    ELSE text


accumulate(text, event) ==
    IF event.content /\ event.parts # <<>>
    THEN AddParts(text, event.parts)
    ELSE text

(***************************************************************************)
(* Inputs: what the model, the remote tools and the runner can produce.    *)
(***************************************************************************)
ToolNames == {"book-hotel", "update-hotel", "search-hotels-by-name"}

CheckinTexts == {"2025-01-18", "2025-01-18T12", "2025-13-01"}

CheckoutTexts == {"2025-02-01", "2025-02-02", "2025-02-10", "2025-01-17",
                  "10/02/2025"}

DateKeys == {"checkin_date", "checkout_date"}

MakeArgs(keys, checkin, checkout) ==
    [k \in keys \cup {"hotel_id"} |->
        CASE k = "checkin_date" -> checkin
          [] k = "checkout_date" -> checkout
          [] OTHER -> "3"]

\* The results a remote tool can return: a value and the dict objects it
\* refers to, addressed from 1.
ToolResults == <<
    [v |-> Str("Hotel 3 booked"), objs |-> <<>>],
    [v |-> Str("Error: no such hotel"), objs |-> <<>>],
    [v |-> Dict(1), objs |-> <<[result |-> Str("Hotel 3 booked")]>>],
    [v |-> Dict(1), objs |-> <<[result |-> Str("Booking Error 7")]>>],
    [v |-> Dict(1), objs |-> <<[result |-> Str("Hotel 3 booked"),
                                meta |-> Dict(2)],
                               [id |-> IntV(3)]>>],
    [v |-> Dict(1), objs |-> <<[meta |-> Dict(2)], [id |-> IntV(3)]>>],
    [v |-> Dict(1), objs |-> <<[result |-> IntV(42)]>>],
    [v |-> IntV(42), objs |-> <<>>]
>>

\* Move a value or an object built at address 1.. to address base+1..
ShiftValue(v, base) == IF v.t = "dict" THEN [v EXCEPT !.n = @ + base] ELSE v

ShiftObject(obj, base) == [k \in DOMAIN obj |-> ShiftValue(obj[k], base)]

ShiftObjects(objs, base) ==
    [i \in 1..Len(objs) |-> ShiftObject(objs[i], base)]

Event(content, parts) == [content |-> content, parts |-> parts]

StreamEvents == {
    Event(FALSE, <<>>),
    Event(TRUE, <<>>),
    Event(TRUE, <<NoneV, Str("Hi")>>),
    Event(TRUE, <<Str(""), Str("!")>>)
}

Message(n) ==
    IF n = 1 THEN "Book hotel with id 3."
    ELSE "Book a hotel with id 5 with checkin date 2025-01-18 and checkout date 2025-02-10"

UserLine(n) == "\nUSER: '" \o Message(n) \o "'"

AiLine(text) == "AI: " \o text

Dashes == "--------------------------------------------------"

(***************************************************************************)
(* State.                                                                  *)
(***************************************************************************)
IdleCall == [stage |-> "idle", tool |-> "", args0 |-> EmptyDict,
             args |-> EmptyDict, pre |-> NoneV, exc |-> "",
             invoked |-> FALSE, response |-> NoneV, post |-> NoneV,
             delivered |-> NoneV, heap0 |-> <<>>]

Init ==
    /\ pc = "start"
    /\ turn = 0
    /\ tpc = "idle"
    /\ acquired = 0
    /\ closed = 0
    /\ response_text = ""
    /\ stdout = <<>>
    /\ events = <<>>
    /\ yielded = 0
    /\ calls = 0
    /\ call = IdleCall
    /\ heap = <<>>

(***************************************************************************)
(* main.                                                                   *)
(***************************************************************************)
\* toolset = ToolboxToolset(...)
MainConstruct ==
    /\ pc = "start"
    /\ acquired' = acquired + 1
    /\ pc' = "get_tools"
    /\ UNCHANGED <<turn, tpc, closed, response_text, stdout, events, yielded, calls,
                   call, heap>>

\* tools = await toolset.get_tools(); then the agent, app and runner are
\* built.  The remote discovery call succeeds or raises.
MainGetTools ==
    /\ pc = "get_tools"
    /\ \E ok \in BOOLEAN : pc' = IF ok THEN "create_session" ELSE "raised"
    /\ UNCHANGED <<turn, tpc, acquired, closed, response_text, stdout,
                   events, yielded, calls, call, heap>>

\* await runner.session_service.create_session(...)
MainCreateSession ==
    /\ pc = "create_session"
    /\ \E ok \in BOOLEAN :
          /\ pc' = IF ok THEN "turn" ELSE "raised"
          /\ turn' = IF ok THEN 1 ELSE turn
    /\ UNCHANGED <<tpc, acquired, closed, response_text, stdout, events, yielded,
                   calls, call, heap>>

\* await toolset.close()
MainClose ==
    /\ pc = "close"
    /\ closed' = closed + 1
    /\ pc' = "done"
    /\ UNCHANGED <<turn, tpc, acquired, response_text, stdout, events, yielded,
                   calls, call, heap>>

(***************************************************************************)
(* run_chat_turn.                                                          *)
(***************************************************************************)
\* main calls run_chat_turn: the user line is printed, the accumulator is
\* emptied and the stream is opened.
TurnStart ==
    /\ pc = "turn"
    /\ tpc = "idle"
    /\ stdout' = Append(stdout, UserLine(turn))
    /\ response_text' = ""
    /\ events' = <<>>
    /\ tpc' = "streaming"
    /\ UNCHANGED <<pc, turn, acquired, closed, yielded, calls, call, heap>>

\* The stream yields one event; the loop body accumulates its text.
StreamEvent ==
    /\ tpc = "streaming"
    /\ call.stage = "idle"
    /\ yielded < MaxEvents
    /\ yielded' = yielded + 1
    /\ \E e \in StreamEvents :
          /\ response_text' = accumulate(response_text, e)
          /\ events' = Append(events, e)
    /\ UNCHANGED <<pc, turn, tpc, acquired, closed, stdout, calls, call,
                   heap>>

\* The stream is exhausted: the response is printed and run_chat_turn
\* returns to main, which prints the separator and starts the second turn,
\* or goes on to close the toolset.
StreamEnd ==
    /\ tpc = "streaming"
    /\ call.stage = "idle"
    /\ tpc' = "idle"
    /\ response_text' = ""
    /\ IF turn = 1
       THEN /\ stdout' = stdout \o <<AiLine(response_text), Dashes>>
            /\ turn' = 2
            /\ pc' = pc
       ELSE /\ stdout' = Append(stdout, AiLine(response_text))
            /\ turn' = turn
            /\ pc' = "close"
    /\ UNCHANGED <<acquired, closed, events, yielded, calls, call, heap>>

\* The stream raises (a network or backend failure): nothing catches it in
\* run_chat_turn or in main.
StreamRaise ==
    /\ tpc = "streaming"
    /\ call.stage \in {"idle", "before_done"}
    /\ tpc' = "raised"
    /\ pc' = "raised"
    /\ UNCHANGED <<turn, acquired, closed, response_text, stdout, events, yielded,
                   calls, call, heap>>

(***************************************************************************)
(* The agent runtime dispatching one tool call around the two callbacks.   *)
(***************************************************************************)
\* The runtime is about to run a tool and calls before_tool_callback.
BeforeTool ==
    /\ tpc = "streaming"
    /\ call.stage = "idle"
    /\ calls < MaxToolCalls
    /\ \E tool \in ToolNames, keys \in SUBSET DateKeys,
          checkin \in CheckinTexts, checkout \in CheckoutTexts :
          LET args == MakeArgs(keys, checkin, checkout)
              r == enfore_business_rules(heap, tool, args)
          IN  /\ call' = [IdleCall EXCEPT
                            !.stage = IF r.exc # "" THEN "raised"
                                      ELSE "before_done",
                            !.tool = tool,
                            !.args0 = args,
                            !.args = r.args,
                            !.pre = r.ret,
                            !.exc = r.exc]
              /\ heap' = r.heap
              /\ stdout' = stdout \o r.out
    /\ calls' = calls + 1
    /\ UNCHANGED <<pc, turn, tpc, acquired, closed, response_text, events, yielded>>

\* The callback returned nothing: the runtime invokes the real remote tool.
InvokeTool ==
    /\ tpc = "streaming"
    /\ call.stage = "before_done"
    /\ call.pre = NoneV
    /\ \E i \in 1..Len(ToolResults) :
          /\ heap' = heap \o ShiftObjects(ToolResults[i].objs, Len(heap))
          /\ call' = [call EXCEPT
                        !.stage = "invoked",
                        !.invoked = TRUE,
                        !.response = ShiftValue(ToolResults[i].v, Len(heap))]
    /\ UNCHANGED <<pc, turn, tpc, acquired, closed, response_text, stdout,
                   events, yielded, calls>>

\* The runtime calls after_tool_callback with the tool's result, or with the
\* result the before-callback substituted, and keeps the original result
\* when the callback returns nothing.
AfterTool ==
    /\ tpc = "streaming"
    /\ \/ call.stage = "invoked"
       \/ call.stage = "before_done" /\ call.pre # NoneV
    /\ LET tool_response == IF call.pre # NoneV THEN call.pre
                            ELSE call.response
           r == enrich_response(heap, call.tool, tool_response)
       IN  /\ heap' = r.heap
           /\ call' = [call EXCEPT
                         !.stage = "delivered",
                         !.post = r.ret,
                         !.delivered = IF r.ret # NoneV THEN r.ret
                                       ELSE tool_response,
                         !.heap0 = heap]
    /\ UNCHANGED <<pc, turn, tpc, acquired, closed, response_text, stdout,
                   events, yielded, calls>>

\* The result has gone back to the model; the call is over.
FinishCall ==
    /\ tpc = "streaming"
    /\ call.stage = "delivered"
    /\ call' = IdleCall
    /\ heap' = <<>>
    /\ UNCHANGED <<pc, turn, tpc, acquired, closed, response_text, stdout,
                   events, yielded, calls>>

\* The before-callback raised: the error leaves the stream, run_chat_turn
\* and main.
PropagateError ==
    /\ call.stage = "raised"
    /\ tpc = "streaming"
    /\ tpc' = "raised"
    /\ pc' = "raised"
    /\ UNCHANGED <<turn, acquired, closed, response_text, stdout, events, yielded,
                   calls, call, heap>>

Next ==
    \/ MainConstruct
    \/ MainGetTools
    \/ MainCreateSession
    \/ MainClose
    \/ TurnStart
    \/ StreamEvent
    \/ StreamEnd
    \/ StreamRaise
    \/ BeforeTool
    \/ InvokeTool
    \/ AfterTool
    \/ FinishCall
    \/ PropagateError

Spec == Init /\ [][Next]_vars

TypeOK ==
    /\ pc \in {"start", "get_tools", "create_session", "turn", "close",
               "done", "raised"}
    /\ turn \in 0..2
    /\ tpc \in {"idle", "streaming", "raised"}
    /\ acquired \in 0..1
    /\ closed \in 0..1
    /\ yielded \in 0..MaxEvents
    /\ Len(events) <= yielded
    /\ calls \in 0..MaxToolCalls
    /\ call.stage \in {"idle", "before_done", "invoked", "delivered", "raised"}

(***************************************************************************)
(* Vocabulary of the properties.                                           *)
(***************************************************************************)
\* enfore_business_rules has acted on the current call.
InterceptorActed == call.stage \in {"before_done", "raised"}

\* enrich_response has acted on the current call.
EnricherActed == call.stage = "delivered"

HasBothDates == DateKeys \subseteq DOMAIN call.args0

CheckinParsed == fromisoformat(call.args0["checkin_date"])

CheckoutParsed == fromisoformat(call.args0["checkout_date"])

BothWellFormed == CheckinParsed.ok /\ CheckoutParsed.ok

\* Minutes from check-in to check-out.
ElapsedMinutes ==
    (CheckoutParsed.ord * 1440 + CheckoutParsed.mins)
        - (CheckinParsed.ord * 1440 + CheckinParsed.mins)

\* Calendar days of the stay, the check-in and the check-out day both counted.
InclusiveDays == CheckoutParsed.ord - CheckinParsed.ord + 1

\* The interceptor returned the policy-violation result.
ReturnedViolation ==
    /\ call.exc = ""
    /\ call.pre.t = "dict"
    /\ heap[call.pre.n] = [result |-> Str(PolicyMessage)]

ReturnedNothing == call.exc = "" /\ call.pre = NoneV

\* What the runtime handed to enrich_response.
EnricherInput == IF call.pre # NoneV THEN call.pre ELSE call.response

InputIsDict == EnricherInput.t = "dict"

InputObject == call.heap0[EnricherInput.n]

\* The objects that existed before the enricher ran are what they were.
OldObjectsUntouched ==
    /\ Len(heap) >= Len(call.heap0)
    /\ \A a \in 1..Len(call.heap0) : heap[a] = call.heap0[a]

RECURSIVE Reach(_, _)
Reach(h, v) ==
    IF v.t # "dict" THEN {}
    ELSE {v.n} \cup UNION {Reach(h, h[v.n][k]) : k \in DOMAIN h[v.n]}

RECURSIVE DeepEq(_, _, _, _)
DeepEq(h1, v1, h2, v2) ==
    IF v1.t = "dict"
    THEN /\ v2.t = "dict"
         /\ DOMAIN h1[v1.n] = DOMAIN h2[v2.n]
         /\ \A k \in DOMAIN h1[v1.n] : DeepEq(h1, h1[v1.n][k], h2, h2[v2.n][k])
    ELSE v1 = v2

EndsWith(s, suffix) ==
    /\ Len(s) >= Len(suffix)
    /\ SubSeq(s, Len(s) - Len(suffix) + 1, Len(s)) = suffix

ConfirmationText ==
    "Booking Confirmed!\n You earned 500 Loyalty Points with this stay.\n\nSystem Details: "

(***************************************************************************)
(* C1 as stated: for update-hotel with both dates present and well-formed, *)
(* the interceptor returns the policy-violation result exactly when the    *)
(* inclusive day span (check-in and check-out day both counted) exceeds    *)
(* 14, and nothing when that span is 14 or less.                           *)
(***************************************************************************)
C1_Inclusive ==
    (/\ InterceptorActed
     /\ call.tool = "update-hotel"
     /\ HasBothDates
     /\ BothWellFormed)
    => /\ (InclusiveDays > 14 => ReturnedViolation)
       /\ (InclusiveDays <= 14 => ReturnedNothing)

(***************************************************************************)
(* C1 amended: for update-hotel with both dates present and well-formed,   *)
(* the interceptor returns the policy-violation result exactly when the    *)
(* whole days elapsed from check-in to check-out exceed 14 (at least 15    *)
(* full days lie between them), and nothing otherwise.                     *)
(***************************************************************************)
C1_WholeDays ==
    (/\ InterceptorActed
     /\ call.tool = "update-hotel"
     /\ HasBothDates
     /\ BothWellFormed)
    => /\ (ElapsedMinutes >= 15 * 1440 => ReturnedViolation)
       /\ (ElapsedMinutes < 15 * 1440 => ReturnedNothing)

\* A stay of 14 nights, 15 calendar days: let through.
C1_Witness ==
    /\ call.stage = "before_done"
    /\ call.tool = "update-hotel"
    /\ HasBothDates
    /\ call.args0["checkin_date"] = "2025-01-18"
    /\ call.args0["checkout_date"] = "2025-02-01"
    /\ ReturnedNothing

(***************************************************************************)
(* C2: whenever the interceptor returns the policy-violation result, the   *)
(* real tool is not invoked for that call, the enricher is given the       *)
(* interceptor's result and returns nothing for it - the error marker      *)
(* alone decides that, whatever the tool - and the result delivered is     *)
(* the interceptor's result, unchanged.                                    *)
(***************************************************************************)
C2_BlockedCallDeliversPolicyError ==
    (call.stage \in {"before_done", "delivered"} /\ call.pre # NoneV)
    => /\ ~call.invoked
       /\ call.response = NoneV
       /\ ReturnedViolation
       /\ EnricherActed =>
            /\ call.post = NoneV
            /\ call.delivered = call.pre
            /\ heap = call.heap0
            /\ \A t \in ToolNames :
                  enrich_response(call.heap0, t, call.pre).ret = NoneV

C2_Witness ==
    /\ EnricherActed
    /\ call.pre # NoneV
    /\ call.delivered = call.pre
    /\ call.args0["checkout_date"] = "2025-02-10"

(***************************************************************************)
(* C3: when the tool is not update-hotel, or checkin_date or checkout_date *)
(* is missing, the interceptor returns nothing, raises nothing, leaves the *)
(* argument mapping as it was, and the real tool is the next step.         *)
(***************************************************************************)
C3_OtherCallsPass ==
    (/\ InterceptorActed
     /\ \/ call.tool # "update-hotel"
        \/ "checkin_date" \notin DOMAIN call.args0
        \/ "checkout_date" \notin DOMAIN call.args0)
    => /\ ReturnedNothing
       /\ call.args = call.args0
       /\ heap = <<>>
       /\ call.stage = "before_done"
       /\ (tpc = "streaming" => ENABLED InvokeTool)

\* update-hotel with a malformed check-in date and no check-out date.
C3_Witness ==
    /\ call.stage = "before_done"
    /\ call.tool = "update-hotel"
    /\ DOMAIN call.args0 = {"hotel_id", "checkin_date"}
    /\ ~CheckinParsed.ok
    /\ ReturnedNothing

(***************************************************************************)
(* C4: for update-hotel with both dates present and one of them malformed, *)
(* the interceptor ends in a date-parse error: it returns neither nothing  *)
(* nor a result, the real tool is not invoked, and the only step left is   *)
(* the error leaving the turn and main, with nothing more printed.         *)
(***************************************************************************)
C4_MalformedDateRaises ==
    /\ [](( /\ call.stage # "idle"
            /\ call.tool = "update-hotel"
            /\ HasBothDates
            /\ ~BothWellFormed)
          => /\ call.stage = "raised"
             /\ call.exc = "ValueError"
             /\ ~ReturnedNothing
             /\ ~ReturnedViolation
             /\ ~call.invoked
             /\ heap = <<>>)
    /\ [][call.stage = "raised"
            => /\ pc' = "raised"
               /\ tpc' = "raised"
               /\ call' = call
               /\ stdout' = stdout
               /\ closed' = closed]_vars

\* A well-formed check-in date and a malformed check-out date.
C4_Witness ==
    /\ pc = "raised"
    /\ call.stage = "raised"
    /\ call.exc = "ValueError"
    /\ CheckinParsed.ok
    /\ ~CheckoutParsed.ok

(***************************************************************************)
(* C5: the enricher returns nothing, and the runtime keeps the original    *)
(* result, when the tool is not book-hotel, or the result text contains    *)
(* "Error", or the result is neither a mapping nor a string.               *)
(***************************************************************************)
InputHasErrorText ==
    \/ EnricherInput.t = "str" /\ Contains(EnricherInput.s, "Error")
    \/ /\ InputIsDict
       /\ "result" \in DOMAIN InputObject
       /\ InputObject["result"].t = "str"
       /\ Contains(InputObject["result"].s, "Error")

C5_NothingToEnrich ==
    (/\ EnricherActed
     /\ \/ call.tool # "book-hotel"
        \/ InputHasErrorText
        \/ EnricherInput.t \notin {"dict", "str"})
    => /\ call.post = NoneV
       /\ call.delivered = EnricherInput
       /\ heap = call.heap0

\* A book-hotel call whose mapping result carries the error marker inside
\* its text.
C5_Witness ==
    /\ EnricherActed
    /\ call.tool = "book-hotel"
    /\ call.invoked
    /\ InputIsDict
    /\ InputObject = [result |-> Str("Booking Error 7")]
    /\ call.post = NoneV

(***************************************************************************)
(* C6: for a successful book-hotel result that is a mapping, the enricher  *)
(* returns a new mapping equal to the original except for its result       *)
(* field, which holds "Booking Confirmed!", the value 500 and the original *)
(* text verbatim; the original mapping is unmodified and shares no object  *)
(* with the returned one.                                                  *)
(***************************************************************************)
InputIsSuccessDict ==
    /\ InputIsDict
    /\ "result" \in DOMAIN InputObject
    /\ InputObject["result"].t = "str"
    /\ ~Contains(InputObject["result"].s, "Error")

C6_MappingEnrichedByCopy ==
    (EnricherActed /\ call.tool = "book-hotel" /\ InputIsSuccessDict)
    => /\ call.post.t = "dict"
       /\ call.post.n # EnricherInput.n
       /\ call.delivered = call.post
       /\ DOMAIN heap[call.post.n] = DOMAIN InputObject
       /\ \A k \in DOMAIN InputObject \ {"result"} :
             DeepEq(heap, heap[call.post.n][k], call.heap0, InputObject[k])
       /\ heap[call.post.n]["result"].t = "str"
       /\ Contains(heap[call.post.n]["result"].s, "Booking Confirmed!")
       /\ Contains(heap[call.post.n]["result"].s, "500")
       /\ EndsWith(heap[call.post.n]["result"].s, InputObject["result"].s)
       /\ OldObjectsUntouched
       /\ Reach(heap, call.post) \cap Reach(call.heap0, EnricherInput) = {}

\* A mapping that holds a nested mapping next to its result text.
C6_Witness ==
    /\ EnricherActed
    /\ call.tool = "book-hotel"
    /\ InputIsSuccessDict
    /\ "meta" \in DOMAIN InputObject
    /\ InputObject["meta"].t = "dict"
    /\ call.post.t = "dict"

(***************************************************************************)
(* C7: for a successful book-hotel result that is a bare string, the       *)
(* enricher returns a string: the confirmation and the 500 loyalty points, *)
(* then the original text verbatim.                                        *)
(***************************************************************************)
C7_StringEnriched ==
    (/\ EnricherActed
     /\ call.tool = "book-hotel"
     /\ EnricherInput.t = "str"
     /\ ~Contains(EnricherInput.s, "Error"))
    => /\ call.post = Str(ConfirmationText \o EnricherInput.s)
       /\ call.delivered = call.post
       /\ heap = call.heap0

C7_Witness ==
    /\ EnricherActed
    /\ call.tool = "book-hotel"
    /\ call.response = Str("Hotel 3 booked")
    /\ call.post.t = "str"

(***************************************************************************)
(* C8 as stated: the toolset is acquired once and closed once, after both  *)
(* turns, and main never ends - normally or by an error - with the         *)
(* toolset acquired and not closed.                                        *)
(***************************************************************************)
C8_ToolsetAlwaysClosed ==
    /\ acquired <= 1
    /\ closed <= acquired
    /\ (closed = 1 => pc = "done" /\ turn = 2)
    /\ (pc \in {"done", "raised"} => closed = acquired)

(***************************************************************************)
(* C9: the response of a turn is printed once, only when the stream is     *)
(* exhausted, and is the concatenation in arrival order of the non-empty   *)
(* text fragments of the turn's events; when the stream raises, nothing    *)
(* is printed for that turn, the message is not submitted again, and main  *)
(* takes no further step.                                                  *)
(***************************************************************************)
IsAiLine(line) == Len(line) >= 4 /\ SubSeq(line, 1, 4) = "AI: "

IsUserLine(line) == Len(line) >= 7 /\ SubSeq(line, 1, 7) = "\nUSER: "

AiCount == Cardinality({i \in 1..Len(stdout) : IsAiLine(stdout[i])})

UserCount == Cardinality({i \in 1..Len(stdout) : IsUserLine(stdout[i])})

\* The text of the parts of an event, last part first.
RECURSIVE PartsText(_)
PartsText(parts) ==
    IF parts = <<>> THEN ""
    ELSE LET last == parts[Len(parts)]
         IN  PartsText(SubSeq(parts, 1, Len(parts) - 1))
                \o (IF last.t = "str" THEN last.s ELSE "")

RECURSIVE StreamText(_)
StreamText(evs) ==
    IF evs = <<>> THEN ""
    ELSE LET last == evs[Len(evs)]
         IN  StreamText(SubSeq(evs, 1, Len(evs) - 1))
                \o (IF last.content THEN PartsText(last.parts) ELSE "")

TurnsCompleted ==
    IF pc \in {"close", "done"} THEN 2
    ELSE IF turn = 0 THEN 0
    ELSE turn - 1

\* run_chat_turn has just returned.
TurnJustEnded ==
    /\ tpc = "idle"
    /\ \/ pc = "turn" /\ turn = 2
       \/ pc \in {"close", "done"}

LastAiLine == IF pc = "turn" THEN stdout[Len(stdout) - 1] ELSE stdout[Len(stdout)]

C9_ResponseEmittedOnce ==
    /\ [](/\ AiCount = TurnsCompleted
          /\ (tpc # "idle" => UserCount = turn)
          /\ (TurnJustEnded => LastAiLine = "AI: " \o StreamText(events))
          /\ (tpc = "raised" => pc = "raised"))
    /\ [][pc = "raised" => UNCHANGED vars]_vars

\* Two events with text in the second turn.
C9_Witness ==
    /\ pc = "close"
    /\ Len(events) = 2
    /\ events[1].parts = <<NoneV, Str("Hi")>>
    /\ events[2].parts = <<Str(""), Str("!")>>
    /\ stdout[Len(stdout)] = "AI: Hi!"

(***************************************************************************)
(* C10: for book-hotel, a mapping with no result field is enriched as a    *)
(* success with empty text (a copy with a result field added, holding the  *)
(* confirmation text with empty system details); a mapping whose result    *)
(* field is not a string yields nothing.                                   *)
(***************************************************************************)
C10_MissingResultField ==
    (EnricherActed /\ call.tool = "book-hotel" /\ InputIsDict)
    => /\ "result" \notin DOMAIN InputObject =>
            /\ call.post.t = "dict"
            /\ call.post.n # EnricherInput.n
            /\ DOMAIN heap[call.post.n] = DOMAIN InputObject \cup {"result"}
            /\ heap[call.post.n]["result"] = Str(ConfirmationText)
            /\ \A k \in DOMAIN InputObject :
                  DeepEq(heap, heap[call.post.n][k], call.heap0, InputObject[k])
            /\ OldObjectsUntouched
       /\ ("result" \in DOMAIN InputObject /\ InputObject["result"].t # "str")
            => call.post = NoneV /\ call.delivered = EnricherInput

C10_Witness ==
    /\ EnricherActed
    /\ call.tool = "book-hotel"
    /\ InputIsDict
    /\ "result" \notin DOMAIN InputObject
    /\ call.post.t = "dict"

====
